---- MODULE Spec2Model ----
(***************************************************************************)
(* Model of docker/snapshot.go: one run of CreateSnapshot against a        *)
(* container engine.  The engine's answers are fixed when the run starts   *)
(* (variable engine); whether each API call succeeds is chosen when the    *)
(* call is made.  Every API call issued on the connection is appended to   *)
(* calls, the warnings written to the log are appended to warnings.        *)
(***************************************************************************)
EXTENDS Integers, Sequences, FiniteSets, TLC

VARIABLES pc, cli, closes, engine, snapshot, ret, calls, warnings

vars == <<pc, cli, closes, engine, snapshot, ret, calls, warnings>>

(* Bounds of the engine's answers. *)

MaxContainers == 2
MaxServices == 2
MaxNodes == 2

(* Strings that the code inspects character by character are sequences of  *)
(* one-character strings; strings that are only compared are TLA+ strings. *)

HealthyTag == <<"(", "h", "e", "a", "l", "t", "h", "y", ")">>

UnhealthyTag == <<"(", "u", "n", "h", "e", "a", "l", "t", "h", "y", ")">>

\* strings.Contains(s, substr)
Contains(s, substr) ==
    \E i \in 1..(Len(s) - Len(substr) + 1) :
        SubSeq(s, i, i + Len(substr) - 1) = substr

StackNamespaceLabel == "com.docker.stack.namespace"

ComposeProjectLabel == "com.docker.compose.project"

NanoPerCPU == 1000000000

\* Go's integer division: the quotient is truncated toward zero.
GoDiv(a, b) ==
    IF (a >= 0) = (b > 0) THEN (IF a >= 0 THEN a ELSE -a) \div (IF b > 0 THEN b ELSE -b)
    ELSE -((IF a >= 0 THEN a ELSE -a) \div (IF b > 0 THEN b ELSE -b))

\* Sum of f[i] over the sequence f, as the accumulation loops compute it.
RECURSIVE SumSeq(_)
SumSeq(f) == IF f = <<>> THEN 0 ELSE f[Len(f)] + SumSeq(SubSeq(f, 1, Len(f) - 1))

NoLabels == [k \in {} |-> ""]

\* The values a label map holds under key: the body of
\* "for k, v := range labels { if k == key { stacks[v] = struct{}{} } }".
LabelValues(labels, key) == {labels[k] : k \in {x \in DOMAIN labels : x = key}}

\* The stacks set after the loop over items (each with a Labels map).
StacksOf(items, key) ==
    UNION {LabelValues(items[i].Labels, key) : i \in 1..Len(items)}

\* Injective sequences over S of length at most n: a listing of distinct objects.
Lists(S, n) ==
    UNION {{f \in [1..k -> S] : \A i, j \in 1..k : i # j => f[i] # f[j]} : k \in 0..n}

(* The engine's objects. *)

Up == <<"U", "p">>

StatusHealthy == Up \o <<" ">> \o HealthyTag

StatusUnhealthy == Up \o <<" ">> \o UnhealthyTag

StatusExited == <<"E", "x", "i", "t", "e", "d", " ", "(", "0", ")">>

StatusBoth == Up \o <<" ">> \o HealthyTag \o <<" ">> \o UnhealthyTag

\* types.Container values as ContainerList returns them.
EngineContainers ==
    { [ID |-> "web", State |-> "running", Status |-> StatusHealthy,
       Labels |-> (ComposeProjectLabel :> "app")],
      [ID |-> "db", State |-> "running", Status |-> StatusUnhealthy,
       Labels |-> (ComposeProjectLabel :> "app")],
      [ID |-> "job", State |-> "exited", Status |-> StatusExited,
       Labels |-> (ComposeProjectLabel :> "batch")],
      [ID |-> "task", State |-> "paused", Status |-> StatusUnhealthy,
       Labels |-> (StackNamespaceLabel :> "app")],
      [ID |-> "odd", State |-> "exited", Status |-> StatusBoth,
       Labels |-> NoLabels] }

\* Config.Env of the ContainerInspect response for container id.
ConfigEnv(id) == <<"HOSTNAME", id>>

\* swarm.Service values as ServiceList returns them.
EngineServices ==
    { [ID |-> "app_web", Labels |-> (StackNamespaceLabel :> "app")],
      [ID |-> "app_db", Labels |-> (StackNamespaceLabel :> "app")],
      [ID |-> "mon_agent", Labels |-> (StackNamespaceLabel :> "mon")],
      [ID |-> "plain", Labels |-> (ComposeProjectLabel :> "app")] }

\* swarm.Node values as NodeList returns them (Description.Resources).
EngineNodes ==
    { [ID |-> "n1", NanoCPUs |-> 500000000, MemoryBytes |-> 1024],
      [ID |-> "n2", NanoCPUs |-> 700000000, MemoryBytes |-> 2048],
      [ID |-> "n3", NanoCPUs |-> 900000000, MemoryBytes |-> 512] }

\* types.Info as Info returns it.
EngineInfo(swarm) ==
    [ControlAvailable |-> swarm, ServerVersion |-> "24.0.7", NCPU |-> 4, MemTotal |-> 5000]

ZeroInfo == [ControlAvailable |-> FALSE, ServerVersion |-> "", NCPU |-> 0, MemTotal |-> 0]

ZeroVolumes == [Volumes |-> <<>>]

ZeroVersion == [Version |-> "", APIVersion |-> ""]

World(swarm, services, nodes, containers) ==
    [info |-> EngineInfo(swarm),
     services |-> services,
     nodes |-> nodes,
     containers |-> containers,
     images |-> <<"sha256:a1", "sha256:b2">>,
     volumes |-> [Volumes |-> <<"data">>],
     networks |-> <<"bridge", "host">>,
     version |-> [Version |-> "24.0.7", APIVersion |-> "1.43"],
     now |-> 1700000000]

BaseServices == <<CHOOSE s \in EngineServices : s.ID = "app_web">>

BaseNodes == <<CHOOSE n \in EngineNodes : n.ID = "n1">>

\* The engines a run is checked against: each family of objects varies over
\* all its listings while the others stay at a baseline.
ContainerWorlds ==
    {World(sw, IF sw THEN BaseServices ELSE <<>>, IF sw THEN BaseNodes ELSE <<>>, cs) :
        sw \in BOOLEAN, cs \in Lists(EngineContainers, MaxContainers)}

ServiceWorlds ==
    {World(TRUE, ss, BaseNodes, cs) :
        ss \in Lists(EngineServices, MaxServices),
        cs \in Lists({c \in EngineContainers : c.ID \in {"web", "job"}}, MaxContainers)}

NodeWorlds ==
    {World(TRUE, BaseServices, ns, <<>>) : ns \in Lists(EngineNodes, MaxNodes)}

Worlds == ContainerWorlds \cup ServiceWorlds \cup NodeWorlds

(* The program. *)

\* &portainer.DockerSnapshot{StackCount: 0}
ZeroSnapshot ==
    [Time |-> 0, DockerVersion |-> "", Swarm |-> FALSE, TotalCPU |-> 0, TotalMemory |-> 0,
     RunningContainerCount |-> 0, StoppedContainerCount |-> 0,
     HealthyContainerCount |-> 0, UnhealthyContainerCount |-> 0,
     VolumeCount |-> 0, ImageCount |-> 0, ServiceCount |-> 0, StackCount |-> 0,
     NodeCount |-> 0,
     SnapshotRaw |-> [Info |-> ZeroInfo, Containers |-> <<>>, Images |-> <<>>,
                      Volumes |-> ZeroVolumes, Networks |-> <<>>, Version |-> ZeroVersion]]

\* One API call on the connection: the method, its argument, whether it succeeded.
Call(op, arg, ok) == [op |-> op, arg |-> arg, ok |-> ok]

\* One warning written to the log: the message and the object it names.
Warn(msg, arg) == [msg |-> msg, arg |-> arg]

Init ==
    /\ pc = "NewClient"
    /\ cli = "none"
    /\ closes = 0
    /\ engine \in Worlds
    /\ snapshot = ZeroSnapshot
    /\ ret = [returned |-> FALSE, snapshot |-> "nil", err |-> "nil"]
    /\ calls = <<>>
    /\ warnings = <<>>

\* client.NewClientWithOpts and the check of its error.
NewClient ==
    /\ pc = "NewClient"
    /\ \E ok \in BOOLEAN :
        IF ok
        THEN /\ cli' = "open"
             /\ pc' = "Ping"
             /\ ret' = ret
        ELSE /\ cli' = cli
             /\ pc' = "done"
             /\ ret' = [returned |-> TRUE, snapshot |-> "nil", err |-> "client"]
    /\ UNCHANGED <<closes, engine, snapshot, calls, warnings>>

\* Ping with its error ignored: the run goes on after a failed Ping.
PingIgnoreError ==
    /\ pc = "Ping"
    /\ \E ok \in BOOLEAN : calls' = Append(calls, Call("Ping", "", ok))
    /\ snapshot' = ZeroSnapshot
    /\ pc' = "Info"
    /\ UNCHANGED <<cli, closes, ret, engine, warnings>>

\* Ping with the Close deferred only after the check of its error: a failed
\* Ping returns with the connection open.
PingNoDefer ==
    /\ pc = "Ping"
    /\ \E ok \in BOOLEAN :
        IF ok
        THEN /\ calls' = Append(calls, Call("Ping", "", TRUE))
             /\ snapshot' = ZeroSnapshot
             /\ pc' = "Info"
             /\ ret' = ret
        ELSE /\ calls' = Append(calls, Call("Ping", "", FALSE))
             /\ ret' = [returned |-> TRUE, snapshot |-> "nil", err |-> "ping"]
             /\ pc' = "done"
             /\ UNCHANGED snapshot
    /\ UNCHANGED <<cli, closes, engine, warnings>>

\* cli.Ping and the check of its error; on failure the function returns and
\* the deferred cli.Close runs.
Ping ==
    /\ pc = "Ping"
    /\ \E ok \in BOOLEAN :
        IF ok
        THEN /\ calls' = Append(calls, Call("Ping", "", TRUE))
             /\ snapshot' = ZeroSnapshot
             /\ pc' = "Info"
             /\ UNCHANGED <<cli, closes, ret>>
        ELSE /\ calls' = calls \o <<Call("Ping", "", FALSE), Call("Close", "", TRUE)>>
             /\ ret' = [returned |-> TRUE, snapshot |-> "nil", err |-> "ping"]
             /\ cli' = "closed"
             /\ closes' = closes + 1
             /\ pc' = "done"
             /\ UNCHANGED snapshot
    /\ UNCHANGED <<engine, warnings>>

\* snapshotInfo's writes once cli.Info has succeeded.
InfoFields(s, info) ==
    [s EXCEPT !.Swarm = info.ControlAvailable,
              !.DockerVersion = info.ServerVersion,
              !.TotalCPU = info.NCPU,
              !.TotalMemory = info.MemTotal,
              !.SnapshotRaw.Info = info]

\* snapshotInfo followed by the swarm steps whatever snapshot.Swarm holds.
SnapshotInfoAlwaysSwarm ==
    /\ pc = "Info"
    /\ \E ok \in BOOLEAN :
        /\ calls' = Append(calls, Call("Info", "", ok))
        /\ snapshot' = IF ok THEN InfoFields(snapshot, engine.info) ELSE snapshot
        /\ warnings' = IF ok THEN warnings
                       ELSE Append(warnings, Warn("unable to snapshot engine information", ""))
    /\ pc' = "Services"
    /\ UNCHANGED <<cli, closes, engine, ret>>

\* snapshotInfo, the warning on its error, and the test of snapshot.Swarm.
SnapshotInfo ==
    /\ pc = "Info"
    /\ \E ok \in BOOLEAN :
        /\ calls' = Append(calls, Call("Info", "", ok))
        /\ snapshot' = IF ok THEN InfoFields(snapshot, engine.info) ELSE snapshot
        /\ warnings' = IF ok THEN warnings
                       ELSE Append(warnings, Warn("unable to snapshot engine information", ""))
    /\ pc' = IF snapshot'.Swarm THEN "Services" ELSE "Containers"
    /\ UNCHANGED <<cli, closes, engine, ret>>

\* snapshotSwarmServices's writes once cli.ServiceList has succeeded.
ServiceFields(s, services) ==
    [s EXCEPT !.ServiceCount = Len(services),
              !.StackCount = @ + Cardinality(StacksOf(services, StackNamespaceLabel))]

SnapshotSwarmServices ==
    /\ pc = "Services"
    /\ \E ok \in BOOLEAN :
        /\ calls' = Append(calls, Call("ServiceList", "", ok))
        /\ snapshot' = IF ok THEN ServiceFields(snapshot, engine.services) ELSE snapshot
        /\ warnings' = IF ok THEN warnings
                       ELSE Append(warnings, Warn("unable to snapshot Swarm services", ""))
    /\ pc' = "Nodes"
    /\ UNCHANGED <<cli, closes, engine, ret>>

\* snapshotNodes dividing each node's NanoCPUs before summing.
NodeFieldsPerNode(s, nodes) ==
    [s EXCEPT !.TotalCPU =
                  SumSeq([i \in 1..Len(nodes) |-> GoDiv(nodes[i].NanoCPUs, NanoPerCPU)]),
              !.TotalMemory = SumSeq([i \in 1..Len(nodes) |-> nodes[i].MemoryBytes]),
              !.NodeCount = Len(nodes)]

\* snapshotNodes's writes once cli.NodeList has succeeded.
NodeFields(s, nodes) ==
    [s EXCEPT !.TotalCPU =
                  GoDiv(SumSeq([i \in 1..Len(nodes) |-> nodes[i].NanoCPUs]), NanoPerCPU),
              !.TotalMemory = SumSeq([i \in 1..Len(nodes) |-> nodes[i].MemoryBytes]),
              !.NodeCount = Len(nodes)]

\* snapshotNodes writing its zero totals before the check of the error.
SnapshotNodesReset ==
    /\ pc = "Nodes"
    /\ \E ok \in BOOLEAN :
        /\ calls' = Append(calls, Call("NodeList", "", ok))
        /\ snapshot' = IF ok THEN NodeFields(snapshot, engine.nodes)
                       ELSE NodeFields(snapshot, <<>>)
        /\ warnings' = IF ok THEN warnings
                       ELSE Append(warnings, Warn("unable to snapshot Swarm nodes", ""))
    /\ pc' = "Containers"
    /\ UNCHANGED <<cli, closes, engine, ret>>

SnapshotNodes ==
    /\ pc = "Nodes"
    /\ \E ok \in BOOLEAN :
        /\ calls' = Append(calls, Call("NodeList", "", ok))
        /\ snapshot' = IF ok THEN NodeFields(snapshot, engine.nodes) ELSE snapshot
        /\ warnings' = IF ok THEN warnings
                       ELSE Append(warnings, Warn("unable to snapshot Swarm nodes", ""))
    /\ pc' = "Containers"
    /\ UNCHANGED <<cli, closes, engine, ret>>

\* The inspect loop skipping the containers whose ContainerInspect failed.
InspectedSkipping(rawContainers, oks) ==
    LET all == [i \in 1..Len(rawContainers) |->
                   [Container |-> rawContainers[i],
                    Env |-> ConfigEnv(rawContainers[i].ID),
                    ok |-> oks[i]]]
        kept == SelectSeq(all, LAMBDA e : e.ok)
    IN  [i \in 1..Len(kept) |-> [Container |-> kept[i].Container, Env |-> kept[i].Env]]

\* The containers slice after the inspect loop: every listed container, in
\* listing order, with Config.Env when its ContainerInspect succeeded.
Inspected(rawContainers, oks) ==
    [i \in 1..Len(rawContainers) |->
        [Container |-> rawContainers[i],
         Env |-> IF oks[i] THEN ConfigEnv(rawContainers[i].ID) ELSE <<>>]]

IsStopped(c) == c.Container.State = "exited"

\* Every container that is not exited counted as running.
IsRunningLoose(c) == ~IsStopped(c)

IsRunning(c) == ~IsStopped(c) /\ c.Container.State = "running"

\* The healthy test matching "healthy)" without the opening parenthesis.
IsHealthyLoose(c) == Contains(c.Container.Status, Tail(HealthyTag))

IsHealthy(c) == Contains(c.Container.Status, HealthyTag)

IsUnhealthy(c) == ~IsHealthy(c) /\ Contains(c.Container.Status, UnhealthyTag)

\* The four counters after the second loop of snapshotContainers.
runningContainers(containers) ==
    Cardinality({i \in 1..Len(containers) : IsRunning(containers[i])})

stoppedContainers(containers) ==
    Cardinality({i \in 1..Len(containers) : IsStopped(containers[i])})

healthyContainers(containers) ==
    Cardinality({i \in 1..Len(containers) : IsHealthy(containers[i])})

unhealthyContainers(containers) ==
    Cardinality({i \in 1..Len(containers) : IsUnhealthy(containers[i])})

\* The stacks set of snapshotContainers after its second loop.
ComposeStacks(containers) ==
    UNION {LabelValues(containers[i].Container.Labels, ComposeProjectLabel) :
              i \in 1..Len(containers)}

\* snapshotContainers assigning its stacks to StackCount instead of adding.
ContainerFieldsOverwrite(s, containers) ==
    [s EXCEPT !.RunningContainerCount = runningContainers(containers),
              !.StoppedContainerCount = stoppedContainers(containers),
              !.HealthyContainerCount = healthyContainers(containers),
              !.UnhealthyContainerCount = unhealthyContainers(containers),
              !.StackCount = Cardinality(ComposeStacks(containers)),
              !.SnapshotRaw.Containers = containers]

\* snapshotContainers's writes once cli.ContainerList has succeeded.
ContainerFields(s, containers) ==
    [s EXCEPT !.RunningContainerCount = runningContainers(containers),
              !.StoppedContainerCount = stoppedContainers(containers),
              !.HealthyContainerCount = healthyContainers(containers),
              !.UnhealthyContainerCount = unhealthyContainers(containers),
              !.StackCount = @ + Cardinality(ComposeStacks(containers)),
              !.SnapshotRaw.Containers = containers]

\* The ContainerInspect calls of the first loop, one per listed container.
InspectCalls(rawContainers, oks) ==
    [i \in 1..Len(rawContainers) |-> Call("ContainerInspect", rawContainers[i].ID, oks[i])]

\* The warnings of the first loop, one per failed ContainerInspect.
RECURSIVE InspectWarnings(_, _)
InspectWarnings(rawContainers, oks) ==
    IF rawContainers = <<>> THEN <<>>
    ELSE LET n == Len(rawContainers)
             front == InspectWarnings(SubSeq(rawContainers, 1, n - 1), oks)
         IN  IF oks[n] THEN front
             ELSE Append(front, Warn("failed to retrieve env for container",
                                     rawContainers[n].ID))

SnapshotContainers ==
    /\ pc = "Containers"
    /\ \E ok \in BOOLEAN :
        IF ok
        THEN \E oks \in [1..Len(engine.containers) -> BOOLEAN] :
                /\ calls' = Append(calls, Call("ContainerList", "", TRUE))
                              \o InspectCalls(engine.containers, oks)
                /\ snapshot' = ContainerFields(snapshot, Inspected(engine.containers, oks))
                /\ warnings' = warnings \o InspectWarnings(engine.containers, oks)
        ELSE /\ calls' = Append(calls, Call("ContainerList", "", FALSE))
             /\ snapshot' = snapshot
             /\ warnings' = Append(warnings, Warn("unable to snapshot containers", ""))
    /\ pc' = "Images"
    /\ UNCHANGED <<cli, closes, engine, ret>>

\* snapshotImages's writes once cli.ImageList has succeeded.
ImageFields(s, images) ==
    [s EXCEPT !.ImageCount = Len(images), !.SnapshotRaw.Images = images]

SnapshotImages ==
    /\ pc = "Images"
    /\ \E ok \in BOOLEAN :
        /\ calls' = Append(calls, Call("ImageList", "", ok))
        /\ snapshot' = IF ok THEN ImageFields(snapshot, engine.images) ELSE snapshot
        /\ warnings' = IF ok THEN warnings
                       ELSE Append(warnings, Warn("unable to snapshot images", ""))
    /\ pc' = "Volumes"
    /\ UNCHANGED <<cli, closes, engine, ret>>

\* snapshotVolumes's writes once cli.VolumeList has succeeded.
VolumeFields(s, volumes) ==
    [s EXCEPT !.VolumeCount = Len(volumes.Volumes), !.SnapshotRaw.Volumes = volumes]

SnapshotVolumes ==
    /\ pc = "Volumes"
    /\ \E ok \in BOOLEAN :
        /\ calls' = Append(calls, Call("VolumeList", "", ok))
        /\ snapshot' = IF ok THEN VolumeFields(snapshot, engine.volumes) ELSE snapshot
        /\ warnings' = IF ok THEN warnings
                       ELSE Append(warnings, Warn("unable to snapshot volumes", ""))
    /\ pc' = "Networks"
    /\ UNCHANGED <<cli, closes, engine, ret>>

\* snapshotNetworks's write once cli.NetworkList has succeeded.
NetworkFields(s, networks) == [s EXCEPT !.SnapshotRaw.Networks = networks]

SnapshotNetworks ==
    /\ pc = "Networks"
    /\ \E ok \in BOOLEAN :
        /\ calls' = Append(calls, Call("NetworkList", "", ok))
        /\ snapshot' = IF ok THEN NetworkFields(snapshot, engine.networks) ELSE snapshot
        /\ warnings' = IF ok THEN warnings
                       ELSE Append(warnings, Warn("unable to snapshot networks", ""))
    /\ pc' = "Version"
    /\ UNCHANGED <<cli, closes, engine, ret>>

\* snapshotVersion's write once cli.ServerVersion has succeeded.
VersionFields(s, version) == [s EXCEPT !.SnapshotRaw.Version = version]

SnapshotVersion ==
    /\ pc = "Version"
    /\ \E ok \in BOOLEAN :
        /\ calls' = Append(calls, Call("ServerVersion", "", ok))
        /\ snapshot' = IF ok THEN VersionFields(snapshot, engine.version) ELSE snapshot
        /\ warnings' = IF ok THEN warnings
                       ELSE Append(warnings, Warn("unable to snapshot engine version", ""))
    /\ pc' = "Return"
    /\ UNCHANGED <<cli, closes, engine, ret>>

\* The return handing back the err variable, which holds the error of the
\* version step.
ReturnLastErr ==
    /\ pc = "Return"
    /\ snapshot' = [snapshot EXCEPT !.Time = engine.now]
    /\ ret' = [returned |-> TRUE, snapshot |-> "snapshot",
               err |-> IF calls[Len(calls)].ok THEN "nil" ELSE "version"]
    /\ calls' = Append(calls, Call("Close", "", TRUE))
    /\ cli' = "closed"
    /\ closes' = closes + 1
    /\ pc' = "done"
    /\ UNCHANGED <<engine, warnings>>

\* The capture time is stamped, the snapshot is returned with a nil error and
\* the deferred cli.Close runs.
Return ==
    /\ pc = "Return"
    /\ snapshot' = [snapshot EXCEPT !.Time = engine.now]
    /\ ret' = [returned |-> TRUE, snapshot |-> "snapshot", err |-> "nil"]
    /\ calls' = Append(calls, Call("Close", "", TRUE))
    /\ cli' = "closed"
    /\ closes' = closes + 1
    /\ pc' = "done"
    /\ UNCHANGED <<engine, warnings>>

Next ==
    \/ NewClient
    \/ Ping
    \/ SnapshotInfo
    \/ SnapshotSwarmServices
    \/ SnapshotNodes
    \/ SnapshotContainers
    \/ SnapshotImages
    \/ SnapshotVolumes
    \/ SnapshotNetworks
    \/ SnapshotVersion
    \/ Return

Spec == Init /\ [][Next]_vars

(* Vocabulary of the properties: what the log of calls and the engine say. *)

Issued(op) == \E i \in 1..Len(calls) : calls[i].op = op

Succeeded(op) == \E i \in 1..Len(calls) : calls[i].op = op /\ calls[i].ok

Failed(op) == \E i \in 1..Len(calls) : calls[i].op = op /\ ~calls[i].ok

TimesIssued(op) == Cardinality({i \in 1..Len(calls) : calls[i].op = op})

CollectionOps ==
    {"Info", "ServiceList", "NodeList", "ContainerList", "ContainerInspect",
     "ImageList", "VolumeList", "NetworkList", "ServerVersion"}

\* The run has returned a snapshot.
ReturnedSnapshot == ret.returned /\ ret.snapshot # "nil"

\* The run has returned after a failed construction of the client.
ClientFailed == ret.returned /\ cli = "none"

\* The services and the containers the run obtained.
ListedServices == IF Succeeded("ServiceList") THEN engine.services ELSE <<>>

ListedContainers == IF Succeeded("ContainerList") THEN engine.containers ELSE <<>>

\* The distinct values of label key over the sequence of objects items.
DistinctLabel(items, key) ==
    {items[i].Labels[key] : i \in {j \in 1..Len(items) : key \in DOMAIN items[j].Labels}}

\* C1: once the client is constructed and the Ping has succeeded the run
\* returns a snapshot and a nil error whatever the later calls do; when Info,
\* ContainerList, ImageList, VolumeList, NetworkList and ServerVersion all
\* fail, every counter is zero, every raw payload is empty and Time is set.
C1_DegradedNeverFatal ==
    (ret.returned /\ Succeeded("Ping")) =>
        /\ ret.snapshot # "nil"
        /\ ret.err = "nil"
        /\ snapshot.Time = engine.now
        /\ snapshot.Time # 0
        /\ (\A op \in {"Info", "ContainerList", "ImageList", "VolumeList",
                       "NetworkList", "ServerVersion"} : Failed(op)) =>
              /\ snapshot.TotalCPU = 0 /\ snapshot.TotalMemory = 0
              /\ snapshot.RunningContainerCount = 0 /\ snapshot.StoppedContainerCount = 0
              /\ snapshot.HealthyContainerCount = 0 /\ snapshot.UnhealthyContainerCount = 0
              /\ snapshot.VolumeCount = 0 /\ snapshot.ImageCount = 0
              /\ snapshot.ServiceCount = 0 /\ snapshot.StackCount = 0
              /\ snapshot.NodeCount = 0
              /\ snapshot.Swarm = FALSE /\ snapshot.DockerVersion = ""
              /\ snapshot.SnapshotRaw.Info = ZeroInfo
              /\ snapshot.SnapshotRaw.Containers = <<>>
              /\ snapshot.SnapshotRaw.Images = <<>>
              /\ snapshot.SnapshotRaw.Volumes.Volumes = <<>>
              /\ snapshot.SnapshotRaw.Networks = <<>>
              /\ snapshot.SnapshotRaw.Version = ZeroVersion

C1_Witness ==
    /\ ret.returned /\ Succeeded("Ping")
    /\ \A op \in {"Info", "ContainerList", "ImageList", "VolumeList",
                  "NetworkList", "ServerVersion"} : Failed(op)

\* C2: a failed client construction or a failed Ping is returned as the error,
\* with no snapshot and without any collection call having been issued; no
\* other run returns an error.
C2_FatalOnlyOnSetup ==
    ret.returned =>
        /\ (ret.err # "nil") <=> (ClientFailed \/ Failed("Ping"))
        /\ ClientFailed => ret.err = "client"
        /\ Failed("Ping") => ret.err = "ping"
        /\ (ret.err # "nil") =>
              /\ ret.snapshot = "nil"
              /\ \A op \in CollectionOps : ~Issued(op)

C2_Witness == ret.returned /\ Failed("Ping") /\ ret.err = "ping"

\* C3: whenever the client was constructed, the connection is closed exactly
\* once, when the run returns and not before; the Close is the last call on
\* the connection.
C3_ClosedOnceAtExit ==
    /\ closes = TimesIssued("Close")
    /\ closes <= 1
    /\ (cli = "closed") <=> (closes = 1)
    /\ \A i \in 1..Len(calls) : calls[i].op = "Close" => i = Len(calls)
    /\ ~ret.returned => closes = 0
    /\ (ret.returned /\ ~ClientFailed) => (closes = 1 /\ calls[Len(calls)].op = "Close")

C3_Witness == ret.returned /\ Failed("Ping") /\ closes = 1 /\ Len(calls) = 2

\* C4: StackCount of the returned snapshot is the number of distinct stack
\* namespace values over the listed services plus the number of distinct
\* compose project values over the listed containers.
C4_StackCount ==
    ReturnedSnapshot =>
        snapshot.StackCount =
            Cardinality(DistinctLabel(ListedServices, StackNamespaceLabel))
            + Cardinality(DistinctLabel(ListedContainers, ComposeProjectLabel))

\* A value under both labels, and a value repeated under the namespace label.
C4_Witness ==
    /\ ReturnedSnapshot
    /\ DistinctLabel(ListedServices, StackNamespaceLabel)
         \cap DistinctLabel(ListedContainers, ComposeProjectLabel) # {}
    /\ \E i, j \in 1..Len(ListedServices) :
          /\ i # j
          /\ StackNamespaceLabel \in DOMAIN ListedServices[i].Labels
          /\ StackNamespaceLabel \in DOMAIN ListedServices[j].Labels
          /\ ListedServices[i].Labels[StackNamespaceLabel]
               = ListedServices[j].Labels[StackNamespaceLabel]
    /\ snapshot.StackCount = 2

\* The number of listed containers in lifecycle state state.
ListedInState(state) ==
    Cardinality({i \in 1..Len(ListedContainers) : ListedContainers[i].State = state})

HasHealthyTag(c) == Contains(c.Status, HealthyTag)

HasUnhealthyTag(c) == Contains(c.Status, UnhealthyTag)

\* The numbers of listed containers by the substrings of their status text.
ListedHealthy ==
    Cardinality({i \in 1..Len(ListedContainers) : HasHealthyTag(ListedContainers[i])})

ListedUnhealthy ==
    Cardinality({i \in 1..Len(ListedContainers) : HasUnhealthyTag(ListedContainers[i])})

ListedNeither ==
    Cardinality({i \in 1..Len(ListedContainers) :
        ~HasHealthyTag(ListedContainers[i]) /\ ~HasUnhealthyTag(ListedContainers[i])})

\* C5 as stated: after a successful container listing HealthyContainerCount
\* is the number of listed containers whose status contains "(healthy)" and
\* UnhealthyContainerCount the number whose status contains "(unhealthy)".
C5_Original ==
    (Succeeded("ContainerList") /\ pc # "Containers") =>
        /\ snapshot.HealthyContainerCount = ListedHealthy
        /\ snapshot.UnhealthyContainerCount = ListedUnhealthy

ListedUnhealthyOnly ==
    Cardinality({i \in 1..Len(ListedContainers) :
        HasUnhealthyTag(ListedContainers[i]) /\ ~HasHealthyTag(ListedContainers[i])})

\* C5 amended: after a successful container listing HealthyContainerCount is
\* the number of listed containers whose status contains "(healthy)" and
\* UnhealthyContainerCount the number whose status contains "(unhealthy)" and
\* does not contain "(healthy)", whatever the containers' lifecycle states; a
\* container whose status contains neither adds to neither count.
C5_HealthCounts ==
    (Succeeded("ContainerList") /\ pc # "Containers") =>
        /\ snapshot.HealthyContainerCount = ListedHealthy
        /\ snapshot.UnhealthyContainerCount = ListedUnhealthyOnly
        /\ snapshot.HealthyContainerCount + snapshot.UnhealthyContainerCount
             = Len(ListedContainers)
               - ListedNeither

\* A paused unhealthy container, and a status holding both substrings.
C5_Witness ==
    /\ ReturnedSnapshot
    /\ \E i \in 1..Len(ListedContainers) :
          /\ ListedContainers[i].State \notin {"running", "exited"}
          /\ HasUnhealthyTag(ListedContainers[i])
    /\ \E i \in 1..Len(ListedContainers) :
          HasHealthyTag(ListedContainers[i]) /\ HasUnhealthyTag(ListedContainers[i])
    /\ snapshot.HealthyContainerCount = 1
    /\ snapshot.UnhealthyContainerCount = 1

\* The sum of field NanoCPUs, and of field MemoryBytes, over the nodes.
RECURSIVE NanoCPUsOf(_)
NanoCPUsOf(nodes) ==
    IF nodes = <<>> THEN 0 ELSE Head(nodes).NanoCPUs + NanoCPUsOf(Tail(nodes))

RECURSIVE MemoryBytesOf(_)
MemoryBytesOf(nodes) ==
    IF nodes = <<>> THEN 0 ELSE Head(nodes).MemoryBytes + MemoryBytesOf(Tail(nodes))

SwarmReported == Succeeded("Info") /\ engine.info.ControlAvailable

\* C6: when engine info reports swarm mode and the node listing succeeds, the
\* returned snapshot has TotalCPU = floor(sum of NanoCPUs / 1e9), TotalMemory
\* = sum of MemoryBytes and NodeCount = number of nodes, whatever the
\* engine-info step wrote.
C6_NodeTotals ==
    (ReturnedSnapshot /\ SwarmReported /\ Succeeded("NodeList")) =>
        /\ snapshot.TotalCPU = NanoCPUsOf(engine.nodes) \div 1000000000
        /\ snapshot.TotalMemory = MemoryBytesOf(engine.nodes)
        /\ snapshot.NodeCount = Len(engine.nodes)

\* Two nodes whose NanoCPUs add up to more than one CPU, each below one, and
\* totals that differ from those of engine info.
C6_Witness ==
    /\ ReturnedSnapshot /\ SwarmReported /\ Succeeded("NodeList")
    /\ Len(engine.nodes) = 2
    /\ snapshot.TotalCPU = 1
    /\ snapshot.TotalCPU # engine.info.NCPU
    /\ snapshot.TotalMemory # engine.info.MemTotal

\* The empty node list: zero totals replace those of engine info.
C6_WitnessEmpty ==
    /\ ReturnedSnapshot /\ SwarmReported /\ Succeeded("NodeList")
    /\ engine.nodes = <<>>
    /\ snapshot.TotalCPU = 0 /\ snapshot.TotalMemory = 0

\* C7: when engine info reports swarm mode and NodeList fails, the failed
\* step changes no field of the snapshot; the returned snapshot has NodeCount
\* 0, the TotalCPU and TotalMemory of engine info and the ServiceCount of the
\* services step, the error is nil, and the container, image, volume, network
\* and version steps have run after the failed call.
C7_NodeFailureFrame ==
    /\ [][(pc = "Nodes" /\ Failed("NodeList")') => snapshot' = snapshot]_vars
    /\ []((ret.returned /\ SwarmReported /\ Failed("NodeList")) =>
            /\ ret.err = "nil" /\ ret.snapshot # "nil"
            /\ snapshot.NodeCount = 0
            /\ snapshot.TotalCPU = engine.info.NCPU
            /\ snapshot.TotalMemory = engine.info.MemTotal
            /\ snapshot.ServiceCount = Len(ListedServices)
            /\ snapshot.StackCount >=
                 Cardinality(DistinctLabel(ListedServices, StackNamespaceLabel))
            /\ \A op \in {"ContainerList", "ImageList", "VolumeList", "NetworkList",
                          "ServerVersion"} :
                  \E i, j \in 1..Len(calls) :
                      /\ calls[i].op = "NodeList"
                      /\ calls[j].op = op
                      /\ i < j)

C7_Witness ==
    /\ ret.returned /\ SwarmReported /\ Failed("NodeList")
    /\ Succeeded("ServiceList") /\ snapshot.ServiceCount = 2
    /\ snapshot.TotalCPU = 4

\* Whether the ContainerInspect call for container id succeeded.
InspectSucceeded(id) ==
    \E i \in 1..Len(calls) :
        calls[i].op = "ContainerInspect" /\ calls[i].arg = id /\ calls[i].ok

\* C8: after a successful container listing the per-container list has one
\* entry per listed container, in listing order; an entry carries the
\* inspected environment when its ContainerInspect succeeded and an empty one
\* when it failed, and the running, stopped, healthy, unhealthy and compose
\* stack counts depend on the listing data alone.
C8_InspectFailureKeepsContainer ==
    Succeeded("ContainerList") =>
        LET raw == snapshot.SnapshotRaw.Containers
        IN  /\ Len(raw) = Len(engine.containers)
            /\ TimesIssued("ContainerInspect") = Len(engine.containers)
            /\ \A i \in 1..Len(raw) :
                  /\ raw[i].Container = engine.containers[i]
                  /\ raw[i].Env = IF InspectSucceeded(engine.containers[i].ID)
                                  THEN ConfigEnv(engine.containers[i].ID)
                                  ELSE <<>>
            /\ snapshot.RunningContainerCount = ListedInState("running")
            /\ snapshot.StoppedContainerCount = ListedInState("exited")
            /\ snapshot.HealthyContainerCount = ListedHealthy
            /\ snapshot.UnhealthyContainerCount = ListedUnhealthyOnly
            /\ snapshot.StackCount
                 - Cardinality(DistinctLabel(ListedServices, StackNamespaceLabel))
                 = Cardinality(DistinctLabel(engine.containers, ComposeProjectLabel))

\* Two listed containers, the inspect of the first failed, that of the second
\* succeeded; the first is running, healthy and labelled with a project.
C8_Witness ==
    /\ ReturnedSnapshot /\ Succeeded("ContainerList")
    /\ Len(engine.containers) = 2
    /\ ~InspectSucceeded(engine.containers[1].ID)
    /\ InspectSucceeded(engine.containers[2].ID)
    /\ snapshot.SnapshotRaw.Containers[1].Env = <<>>
    /\ snapshot.SnapshotRaw.Containers[2].Env # <<>>
    /\ engine.containers[1].State = "running"
    /\ HasHealthyTag(engine.containers[1])
    /\ ComposeProjectLabel \in DOMAIN engine.containers[1].Labels

\* C9: in every returned snapshot RunningContainerCount is the number of
\* listed containers in state "running", StoppedContainerCount the number in
\* state "exited"; their sum is at most the length of the per-container list
\* and equals it exactly when every listed container is running or exited.
C9_StateCounts ==
    ReturnedSnapshot =>
        LET total == Len(snapshot.SnapshotRaw.Containers)
            sum == snapshot.RunningContainerCount + snapshot.StoppedContainerCount
        IN  /\ snapshot.RunningContainerCount = ListedInState("running")
            /\ snapshot.StoppedContainerCount = ListedInState("exited")
            /\ sum <= total
            /\ (sum = total) <=>
                 \A i \in 1..Len(ListedContainers) :
                     ListedContainers[i].State \in {"running", "exited"}

\* A running container listed with a paused one: the sum is below the total.
C9_Witness ==
    /\ ReturnedSnapshot
    /\ Len(snapshot.SnapshotRaw.Containers) = 2
    /\ snapshot.RunningContainerCount = 1
    /\ snapshot.StoppedContainerCount = 0
    /\ \E i \in 1..Len(ListedContainers) : ListedContainers[i].State = "paused"

IsPrefix(a, b) == Len(a) <= Len(b) /\ SubSeq(b, 1, Len(a)) = a

\* The methods of the calls issued so far, Ping, ContainerInspect and Close
\* left out.
StepsIssued ==
    LET steps == SelectSeq(calls,
                     LAMBDA c : c.op \in CollectionOps \ {"ContainerInspect"})
    IN  [i \in 1..Len(steps) |-> steps[i].op]

\* The order of the collection steps of a run, given what Info answered.
StepOrder ==
    <<"Info">>
    \o (IF SwarmReported THEN <<"ServiceList", "NodeList">> ELSE <<>>)
    \o <<"ContainerList", "ImageList", "VolumeList", "NetworkList", "ServerVersion">>

\* C10: past the Ping the steps are issued in the order engine info, swarm
\* services and swarm nodes (only when the engine-info step succeeded and
\* reported swarm mode), containers, images, volumes, networks, version; each
\* at most once and whatever the outcome of the steps before it; every
\* ContainerInspect lies between ContainerList and ImageList; the capture
\* time is written after the version step; without swarm mode neither
\* ServiceList nor NodeList is issued and NodeCount and ServiceCount are 0.
C10_StepOrder ==
    /\ Issued("Info") => IsPrefix(StepsIssued, StepOrder)
    /\ ~Issued("Info") => StepsIssued = <<>>
    /\ ReturnedSnapshot => StepsIssued = StepOrder
    /\ \A i \in 1..Len(calls) :
          calls[i].op = "ContainerInspect" =>
              /\ \E j \in 1..(i - 1) : calls[j].op = "ContainerList" /\ calls[j].ok
              /\ \A j \in 1..(i - 1) :
                    calls[j].op \notin {"ImageList", "VolumeList", "NetworkList",
                                        "ServerVersion"}
    /\ snapshot.Time # 0 => (Issued("ServerVersion") /\ ret.returned)
    /\ (ReturnedSnapshot /\ ~SwarmReported) =>
          /\ ~Issued("ServiceList") /\ ~Issued("NodeList")
          /\ snapshot.NodeCount = 0 /\ snapshot.ServiceCount = 0

\* A swarm run in which the services step, the containers step and the
\* volumes step failed and every later step was still issued.
C10_Witness ==
    /\ ReturnedSnapshot /\ SwarmReported
    /\ Failed("ServiceList") /\ Succeeded("NodeList")
    /\ Failed("ContainerList") /\ Succeeded("ImageList")
    /\ Failed("VolumeList") /\ Succeeded("NetworkList") /\ Succeeded("ServerVersion")
    /\ Len(StepsIssued) = 8

====
